---- MODULE Spec2Model ----
(***************************************************************************)
(* Model of the two asset-preparation scripts of Helios-Ascension:         *)
(*   add_textures_to_ron.py            (process_ron_file and __main__)     *)
(*   assets/textures/generate_placeholders.py (create_rocky_texture)       *)
(*                                                                         *)
(* Text is modelled as a sequence of tokens.  A whitespace token stands    *)
(* for one whitespace character, NL for the line terminator, the other     *)
(* tokens for a run of non-whitespace characters.  A file is a flat token  *)
(* sequence; readlines() splits it after every NL and writelines()         *)
(* concatenates the lines again.                                           *)
(***************************************************************************)
EXTENDS Integers, Sequences, FiniteSets, TLC

\* ------------------------------------------------------------------ bounds
MaxLines == 4
MaxCalls == 2
MaxBackupLines == 3
MaxRuns == 3
MaxTextures == 3

\* ------------------------------------------------------------------ tokens
SP == [t |-> "ws", v |-> " "]
TAB == [t |-> "ws", v |-> "\t"]
NL == [t |-> "nl", v |-> "\n"]
NAMEKW == [t |-> "kw", v |-> "name:"]
ROTKW == [t |-> "kw", v |-> "rotation_period:"]
Txt == [t |-> "txt", v |-> "24.0,"]
Str(s) == [t |-> "str", v |-> s]
\* texture: Some("<path>"),
Tex(path) == [t |-> "tex", v |-> path]

\* \s of the regular expressions and the characters str.lstrip() removes
IsSpace(tok) == tok.t \in {"ws", "nl"}

TEXTURE_MAPPING ==
    ("Sol" :> "textures/celestial/stars/sun_2k.jpg")
 @@ ("Mercury" :> "textures/celestial/planets/mercury_2k.jpg")
 @@ ("Venus" :> "textures/celestial/planets/venus_atmosphere_2k.jpg")
 @@ ("Earth" :> "textures/celestial/planets/earth_2k.jpg")
 @@ ("Mars" :> "textures/celestial/planets/mars_2k.jpg")
 @@ ("Jupiter" :> "textures/celestial/planets/jupiter_2k.jpg")
 @@ ("Saturn" :> "textures/celestial/planets/saturn_2k.jpg")
 @@ ("Uranus" :> "textures/celestial/planets/uranus_2k.jpg")
 @@ ("Neptune" :> "textures/celestial/planets/neptune_2k.jpg")
 @@ ("Pluto" :> "textures/celestial/planets/pluto_1k.jpg")
 @@ ("Ceres" :> "textures/celestial/planets/ceres_1k.jpg")
 @@ ("Eris" :> "textures/celestial/planets/eris_1k.jpg")
 @@ ("Moon" :> "textures/celestial/moons/moon_2k.jpg")
 @@ ("Io" :> "textures/celestial/moons/io_1k.jpg")
 @@ ("Europa" :> "textures/celestial/moons/europa_1k.jpg")
 @@ ("Ganymede" :> "textures/celestial/moons/ganymede_1k.jpg")
 @@ ("Callisto" :> "textures/celestial/moons/callisto_1k.jpg")
 @@ ("Titan" :> "textures/celestial/moons/titan_1k.jpg")
 @@ ("Rhea" :> "textures/celestial/moons/rhea_1k.jpg")
 @@ ("Iapetus" :> "textures/celestial/moons/iapetus_1k.jpg")
 @@ ("Dione" :> "textures/celestial/moons/dione_1k.jpg")
 @@ ("Tethys" :> "textures/celestial/moons/tethys_1k.jpg")
 @@ ("Enceladus" :> "textures/celestial/moons/enceladus_1k.jpg")

\* ------------------------------------------------------------ text helpers
RECURSIVE LStrip(_)
\* str.lstrip(): the line without its leading whitespace
LStrip(line) ==
    IF line # <<>> /\ IsSpace(Head(line)) THEN LStrip(Tail(line)) ELSE line

RECURSIVE ReadLinesFrom(_, _)
\* f.readlines(): `cur` is the line being collected, `rest` the unread text
ReadLinesFrom(cur, rest) ==
    IF rest = <<>>
    THEN IF cur = <<>> THEN <<>> ELSE <<cur>>
    ELSE IF Head(rest) = NL
         THEN <<Append(cur, NL)>> \o ReadLinesFrom(<<>>, Tail(rest))
         ELSE ReadLinesFrom(Append(cur, Head(rest)), Tail(rest))

ReadLines(text) == ReadLinesFrom(<<>>, text)

RECURSIVE WriteLines(_)
\* f.writelines(): the lines one after the other, nothing added between them
WriteLines(ls) ==
    IF ls = <<>> THEN <<>> ELSE Head(ls) \o WriteLines(Tail(ls))

\* current_body_name is None
NoName == <<>>

\* re.match(r'\s*name:\s*"([^"]+)"', line): <<group(1)>>, or NoName for no match
name_match(line) ==
    LET r == LStrip(line)
    IN  IF r # <<>> /\ r[1] = NAMEKW
        THEN LET q == LStrip(Tail(r))
             IN  IF q # <<>> /\ q[1].t = "str" /\ q[1].v # ""
                 THEN <<q[1].v>>
                 ELSE NoName
        ELSE NoName

\* re.match(r'\s*rotation_period:', line)
IsRotationLine(line) ==
    LET r == LStrip(line) IN r # <<>> /\ r[1] = ROTKW

\* lines 67-68: the name in force once `line` has been looked at
BodyNameAt(cur, line) ==
    IF name_match(line) # NoName THEN name_match(line) ELSE cur

\* AddedAt with line 69 left out: a name line does not reset texture_added
AddedAtNoReset(added, line) == added

\* lines 67-69: texture_added once `line` has been looked at
AddedAt(added, line) ==
    IF name_match(line) # NoName THEN FALSE ELSE added

\* line 72: the anchor branch is taken
AnchorFires(cur, added, line) ==
    /\ cur # NoName
    /\ cur[1] # ""
    /\ ~added
    /\ IsRotationLine(line)

\* line 77
HasTexture(cur) == cur[1] \in DOMAIN TEXTURE_MAPPING

\* line 79
Indent(line) == Len(line) - Len(LStrip(line))

\* line 81: ' ' * indent + f'texture: Some("{texture_path}"),\n'
TextureLine(indent, texture_path) ==
    [k \in 1..indent |-> SP] \o <<Tex(texture_path), NL>>

\* InsertedLines with the membership test of line 77 replaced by a lookup with
\* a default: a texture line is appended for every anchor
InsertedLinesUnchecked(cur, line) ==
    <<TextureLine(Indent(line),
                  IF HasTexture(cur) THEN TEXTURE_MAPPING[cur[1]] ELSE "None")>>

\* lines 77-82: what the anchor branch appends after the anchor line
InsertedLines(cur, line) ==
    IF HasTexture(cur)
    THEN <<TextureLine(Indent(line), TEXTURE_MAPPING[cur[1]])>>
    ELSE <<>>

\* AnchorOutput with line 74 left out: the anchor line itself is not copied
AnchorOutputNoAnchor(cur, line) == InsertedLines(cur, line)

\* lines 74-82: everything the anchor branch appends
AnchorOutput(cur, line) == <<line>> \o InsertedLines(cur, line)

\* AfterAnchor with lines 83 and 87 left out: the scan state is not advanced
AfterAnchorStale(cur, added) ==
    [current_body_name |-> cur, texture_added |-> added]

\* lines 83 and 87: the scan state the anchor branch leaves behind
AfterAnchor(cur, added) ==
    [current_body_name |-> NoName,
     texture_added |-> IF HasTexture(cur) THEN TRUE ELSE added]

\* CountAfterAnchor with line 84 moved out of the `if`: every anchor counts
CountAfterAnchorAlways(n, cur) == n + 1

\* line 84
CountAfterAnchor(n, cur) == IF HasTexture(cur) THEN n + 1 ELSE n

\* process_ron_file has no return statement: the call evaluates to None
NoneValue == {}
ReturnValue(n) == NoneValue

\* Restored with the copy of line 108 left out
RestoredNever(work, exists, bak) == work

\* lines 107-108: the working file after the restore step
Restored(work, exists, bak) == IF exists THEN bak ELSE work

\* ------------------------------------------------------------------- state
VARIABLES
    file,               \* text of assets/data/solar_system.ron
    backup_exists,      \* os.path.exists(backup_file)
    backup,             \* text of assets/data/solar_system.ron.backup
    pc,                 \* position of the script
    lines,              \* process_ron_file: lines
    i,                  \* number of lines the loop has consumed
    output_lines,       \* process_ron_file: output_lines
    out_src,            \* history: per output line, the input line it copies (0: inserted)
    current_body_name,  \* process_ron_file: current_body_name
    texture_added,      \* process_ron_file: texture_added
    bodies_updated,     \* process_ron_file: bodies_updated
    result,             \* value of the finished call process_ron_file(...)
    reported,           \* the count printed by line 96, as a set
    calls,              \* number of calls of process_ron_file started
    prev_count,         \* history: the count the previous call printed
    runs,               \* number of runs of the entry point started
    first_result,       \* history: the working file after the first run
    backup0,            \* history: the backup file's text at the start
    g_pc,               \* position of generate_placeholders.py
    g_spec,             \* arguments of the running create_moon_texture call
    pixels,             \* create_rocky_texture: the raster, row-major
    px,                 \* number of pixels the noise loops have visited
    rng,                \* state of the shared generator of module random
    hash_seed,          \* the process's string-hash randomisation
    log                 \* history: every (arguments, raster) generated, in order

pvars == <<file, backup_exists, backup, pc, lines, i, output_lines, out_src,
           current_body_name, texture_added, bodies_updated, result, reported,
           calls, prev_count, runs, first_result, backup0>>
gvars == <<g_pc, g_spec, pixels, px, rng, hash_seed, log>>
vars == <<pvars, gvars>>

\* ------------------------------------------------------------- input texts
\* Line contents the input files are built from (without the terminator).
LineBodies ==
    { <<NAMEKW, SP, Str("Earth")>>,         \* name: "Earth"
      <<TAB, NAMEKW, Str("Io"), Txt>>,      \* <tab>name:"Io",
      <<SP, NAMEKW, SP, Str("Halley")>>,    \*  name: "Halley"   (no texture)
      <<SP, SP, ROTKW, SP, Txt>>,           \*   rotation_period: 24.0,
      <<TAB, ROTKW, Txt>>,                  \* <tab>rotation_period:24.0,
      <<Txt, SP, ROTKW>>,                   \* 24.0, rotation_period:   (no anchor)
      <<NAMEKW, SP, Str("")>> }             \* name: ""                  (no name line)

\* The text of the lines f[1..n]; the last line has a terminator iff `term`.
TextOf(f, n, term) ==
    LET all == WriteLines([k \in 1..n |-> Append(f[k], NL)])
    IN  IF term \/ n = 0 THEN all ELSE SubSeq(all, 1, Len(all) - 1)

\* A working file left behind by an earlier, unrelated edit.
StaleFile ==
    <<NAMEKW, SP, Str("Earth"), NL, ROTKW, NL, Tex(TEXTURE_MAPPING["Earth"]), NL,
      Txt, NL>>

GenIdle ==
    /\ g_pc = "idle"
    /\ g_spec = <<>>
    /\ pixels = <<>>
    /\ px = 0
    /\ rng = 0
    /\ hash_seed = 0
    /\ log = <<>>

Locals0 ==
    /\ lines = <<>>
    /\ i = 0
    /\ output_lines = <<>>
    /\ out_src = <<>>
    /\ current_body_name = NoName
    /\ texture_added = FALSE
    /\ bodies_updated = 0
    /\ result = NoneValue
    /\ reported = {}
    /\ prev_count = {}
    /\ first_result = <<>>
    /\ backup0 = backup

\* A direct call process_ron_file(path, path) on an arbitrary file.
Init ==
    /\ \E n \in 0..MaxLines :
         \E f \in [1..n -> LineBodies], term \in BOOLEAN :
            file = TextOf(f, n, term)
    /\ backup_exists = FALSE
    /\ backup = <<>>
    /\ pc = "call"
    /\ calls = 1
    /\ runs = 0
    /\ Locals0
    /\ GenIdle

\* The script run as __main__, with or without a backup file.
InitMain ==
    /\ backup_exists \in BOOLEAN
    /\ \E n \in 0..MaxBackupLines :
         \E f \in [1..n -> LineBodies], term \in BOOLEAN :
            backup = IF backup_exists THEN TextOf(f, n, term) ELSE <<>>
    /\ file \in {<<>>, backup, StaleFile}
    /\ pc = "main"
    /\ calls = 0
    /\ runs = 1
    /\ Locals0
    /\ GenIdle

\* ---------------------------------------------------------- process_ron_file
\* lines 56-62
ReadFile ==
    /\ pc = "call"
    /\ lines' = ReadLines(file)
    /\ output_lines' = <<>>
    /\ out_src' = <<>>
    /\ current_body_name' = NoName
    /\ texture_added' = FALSE
    /\ bodies_updated' = 0
    /\ i' = 0
    /\ pc' = "scan"
    /\ UNCHANGED <<backup0, file, backup_exists, backup, result, reported, calls,
                   prev_count, runs, first_result>>
    /\ UNCHANGED gvars

\* lines 64-88: one iteration that takes the anchor branch
ScanAnchor ==
    /\ pc = "scan"
    /\ i < Len(lines)
    /\ LET line == lines[i + 1]
           cur == BodyNameAt(current_body_name, line)
           added == AddedAt(texture_added, line)
       IN  /\ AnchorFires(cur, added, line)
           /\ output_lines' = output_lines \o AnchorOutput(cur, line)
           /\ out_src' = out_src \o <<i + 1>>
                           \o [k \in 1..Len(InsertedLines(cur, line)) |-> 0]
           /\ bodies_updated' = CountAfterAnchor(bodies_updated, cur)
           /\ current_body_name' = AfterAnchor(cur, added).current_body_name
           /\ texture_added' = AfterAnchor(cur, added).texture_added
    /\ i' = i + 1
    /\ UNCHANGED <<backup0, file, backup_exists, backup, pc, lines, result, reported,
                   calls, prev_count, runs, first_result>>
    /\ UNCHANGED gvars

\* lines 64-72 and 90: one iteration that copies the line
ScanCopy ==
    /\ pc = "scan"
    /\ i < Len(lines)
    /\ LET line == lines[i + 1]
           cur == BodyNameAt(current_body_name, line)
           added == AddedAt(texture_added, line)
       IN  /\ ~AnchorFires(cur, added, line)
           /\ output_lines' = Append(output_lines, line)
           /\ out_src' = Append(out_src, i + 1)
           /\ current_body_name' = cur
           /\ texture_added' = added
    /\ i' = i + 1
    /\ UNCHANGED <<backup0, file, backup_exists, backup, pc, lines, bodies_updated,
                   result, reported, calls, prev_count, runs, first_result>>
    /\ UNCHANGED gvars

\* lines 93-97 and the return
WriteOutput ==
    /\ pc = "scan"
    /\ i = Len(lines)
    /\ file' = WriteLines(output_lines)
    /\ reported' = {bodies_updated}
    /\ result' = ReturnValue(bodies_updated)
    /\ pc' = "done"
    /\ UNCHANGED <<backup0, backup_exists, backup, lines, i, output_lines, out_src,
                   current_body_name, texture_added, bodies_updated, calls,
                   prev_count, runs, first_result>>
    /\ UNCHANGED gvars

\* process_ron_file called again on the file the previous call wrote
CallAgain ==
    /\ pc = "done"
    /\ calls < MaxCalls
    /\ calls' = calls + 1
    /\ prev_count' = reported
    /\ pc' = "call"
    /\ UNCHANGED <<backup0, file, backup_exists, backup, lines, i, output_lines, out_src,
                   current_body_name, texture_added, bodies_updated, result,
                   reported, runs, first_result>>
    /\ UNCHANGED gvars

Next == ReadFile \/ ScanAnchor \/ ScanCopy \/ WriteOutput \/ CallAgain

Spec == Init /\ [][Next]_vars

\* ------------------------------------------------------------------ __main__
\* lines 107-109: the backup exists and is copied over the working file
RestoreBackup ==
    /\ pc = "main"
    /\ backup_exists
    /\ file' = Restored(file, backup_exists, backup)
    /\ pc' = "call"
    /\ calls' = calls + 1
    /\ UNCHANGED <<backup0, backup_exists, backup, lines, i, output_lines, out_src,
                   current_body_name, texture_added, bodies_updated, result,
                   reported, prev_count, runs, first_result>>
    /\ UNCHANGED gvars

\* line 107: no backup file, the working file is patched as it is
NoBackup ==
    /\ pc = "main"
    /\ ~backup_exists
    /\ pc' = "call"
    /\ calls' = calls + 1
    /\ UNCHANGED <<backup0, file, backup_exists, backup, lines, i, output_lines, out_src,
                   current_body_name, texture_added, bodies_updated, result,
                   reported, prev_count, runs, first_result>>
    /\ UNCHANGED gvars

\* line 112: the run ends
MainDone ==
    /\ pc = "done"
    /\ pc' = "exit"
    /\ first_result' = IF runs = 1 THEN <<file>> ELSE first_result
    /\ UNCHANGED <<backup0, file, backup_exists, backup, lines, i, output_lines, out_src,
                   current_body_name, texture_added, bodies_updated, result,
                   reported, calls, prev_count, runs>>
    /\ UNCHANGED gvars

\* the script is run again
Rerun ==
    /\ pc = "exit"
    /\ runs < MaxRuns
    /\ runs' = runs + 1
    /\ pc' = "main"
    /\ UNCHANGED <<backup0, file, backup_exists, backup, lines, i, output_lines, out_src,
                   current_body_name, texture_added, bodies_updated, result,
                   reported, calls, prev_count, first_result>>
    /\ UNCHANGED gvars

NextMain ==
    \/ RestoreBackup \/ NoBackup \/ ReadFile \/ ScanAnchor \/ ScanCopy
    \/ WriteOutput \/ MainDone \/ Rerun

SpecMain == InitMain /\ [][NextMain]_vars

\* ------------------------------------------------- generate_placeholders.py
\* The generator of module random, as a linear congruential generator.
RngModulus == 256
RngStep(s) == (5 * s + 3) % RngModulus

\* line 23: random.randint(-30, 30) read off the generator state
RandInt(s) == (s % 61) - 30

\* Reseeded with line 13 left out: the generator keeps its state
ReseededNever(old, seed) == old

\* line 13: random.seed(seed) replaces the generator state
Reseeded(old, seed) == seed % RngModulus

NameCode ==
    ("Io" :> 1) @@ ("Enceladus" :> 2) @@ ("Phoebe" :> 3)

\* line 43: hash(name), fixed within a process and salted per process
Hash(name, salt) == NameCode[name] * 37 + salt * 101

\* lines 25-27
Clamp(c) == IF c < 0 THEN 0 ELSE IF c > 255 THEN 255 ELSE c

\* lines 22-28: the pixel with the noise added to each channel
Noisy(pixel, noise) ==
    <<Clamp(pixel[1] + noise), Clamp(pixel[2] + noise), Clamp(pixel[3] + noise)>>

\* lines 20-21: the raster index of the n-th pixel the loops visit (n from 0)
VisitIndex(n, width) ==
    LET y == n \div width
        x == n % width
    IN  y * width + x + 1

RECURSIVE SumSeq(_)
SumSeq(q) == IF q = <<>> THEN 0 ELSE Head(q) + SumSeq(Tail(q))

RECURSIVE SetToSeq(_)
SetToSeq(S) ==
    IF S = {} THEN <<>>
    ELSE LET m == CHOOSE a \in S : \A b \in S : a <= b
         IN  <<m>> \o SetToSeq(S \ {m})

\* line 31: ImageFilter.GaussianBlur(radius=1), a fixed function of the raster;
\* here the mean over the pixel and its neighbours inside the image.
Blur(img, width, height) ==
    [k \in 1..(width * height) |->
        LET x == (k - 1) % width
            y == (k - 1) \div width
            near == SetToSeq({ny * width + nx + 1 :
                        nx \in {a \in (x - 1)..(x + 1) : a >= 0 /\ a < width},
                        ny \in {b \in (y - 1)..(y + 1) : b >= 0 /\ b < height}})
        IN  [c \in 1..3 |->
                SumSeq([j \in 1..Len(near) |-> img[near[j]][c]]) \div Len(near)]]

\* (name, base colour) rows of the tables of lines 55-86, at model-sized rasters
PlaceholderSpecs ==
    { [name |-> r[1], color |-> r[2], width |-> d[1], height |-> d[2]] :
        r \in { <<"Io", <<180, 150, 100>>>>,
                <<"Enceladus", <<240, 240, 240>>>>,
                <<"Phoebe", <<80, 75, 70>>>> },
        d \in { <<2, 1>>, <<2, 2>> } }

PatcherIdle ==
    /\ file = <<>>
    /\ backup_exists = FALSE
    /\ backup = <<>>
    /\ pc = "none"
    /\ calls = 0
    /\ runs = 0
    /\ Locals0

\* The generator script; the module random starts in a state nobody chose.
InitGen ==
    /\ g_pc = "idle"
    /\ g_spec = <<>>
    /\ pixels = <<>>
    /\ px = 0
    /\ rng \in {0, 7, 40}
    /\ hash_seed \in {0, 1}
    /\ log = <<>>
    /\ PatcherIdle

\* lines 35-43 and 13-17: create_moon_texture calls create_rocky_texture
BeginTexture ==
    /\ g_pc = "idle"
    /\ Len(log) < MaxTextures
    /\ \E spec \in PlaceholderSpecs :
        /\ g_spec' = <<spec>>
        /\ rng' = Reseeded(rng, Hash(spec.name, hash_seed))
        /\ pixels' = [k \in 1..(spec.width * spec.height) |-> spec.color]
    /\ px' = 0
    /\ g_pc' = "noise"
    /\ UNCHANGED <<hash_seed, log>>
    /\ UNCHANGED pvars

\* lines 20-28: one pixel of the noise loops
NoisePixel ==
    /\ g_pc = "noise"
    /\ px < Len(pixels)
    /\ LET k == VisitIndex(px, g_spec[1].width)
           s == RngStep(rng)
       IN  /\ rng' = s
           /\ pixels' = [pixels EXCEPT ![k] = Noisy(pixels[k], RandInt(s))]
    /\ px' = px + 1
    /\ UNCHANGED <<g_pc, g_spec, hash_seed, log>>
    /\ UNCHANGED pvars

\* lines 31-33 and 46: the blurred raster is returned and handed to img.save
FinishTexture ==
    /\ g_pc = "noise"
    /\ px = Len(pixels)
    /\ LET out == Blur(pixels, g_spec[1].width, g_spec[1].height)
       IN  /\ pixels' = out
           /\ log' = Append(log, [spec |-> g_spec[1], raster |-> out])
    /\ g_pc' = "idle"
    /\ UNCHANGED <<g_spec, px, rng, hash_seed>>
    /\ UNCHANGED pvars

NextGen == BeginTexture \/ NoisePixel \/ FinishTexture

SpecGen == InitGen /\ [][NextGen]_vars

\* =================================================================== claims
\* Vocabulary of the claims about process_ron_file.
IsNameLine(line) == name_match(line) # NoName
NameOf(line) == name_match(line)[1]
Scanning == pc \in {"scan", "done"}
OutIdx == 1..Len(output_lines)
IsInserted(k) == out_src[k] = 0

\* The output position of input line n, once the loop has consumed it.
OutPos(n) == CHOOSE k \in OutIdx : out_src[k] = n

\* The input line whose copy is the nearest copied line before output line k
\* (0 when there is none).
SrcBefore(k) ==
    LET before == {j \in 1..(k - 1) : out_src[j] # 0}
    IN  IF before = {} THEN 0
        ELSE out_src[CHOOSE j \in before : \A m \in before : m <= j]

\* Input line n is a name line and e is the last consumed line of its record.
RecordSpan(n, e) ==
    /\ n \in 1..i
    /\ e \in n..i
    /\ IsNameLine(lines[n])
    /\ \A m \in (n + 1)..e : ~IsNameLine(lines[m])
    /\ e = i \/ IsNameLine(lines[e + 1])

\* Line r is the first rotation_period line after name line n, with no other
\* name line between them.
FirstAnchor(n, r) ==
    /\ n \in 1..i
    /\ r \in (n + 1)..i
    /\ IsNameLine(lines[n])
    /\ IsRotationLine(lines[r])
    /\ \A m \in (n + 1)..(r - 1) :
          ~IsNameLine(lines[m]) /\ ~IsRotationLine(lines[m])

InsertedOf(n, e) == {k \in OutIdx : IsInserted(k) /\ SrcBefore(k) \in n..e}

\* C1: a record whose name is a key of the mapping and that has a
\* rotation_period line gets exactly one inserted texture line; it stands
\* directly after the record's first rotation_period line and carries
\* mapping[name].  This holds for a repeated name as for a first one.
C1_OneTexturePerMappedRecord ==
    Scanning =>
      \A n \in 1..i, r \in 1..i, e \in 1..i :
        ( /\ FirstAnchor(n, r)
          /\ RecordSpan(n, e)
          /\ NameOf(lines[n]) \in DOMAIN TEXTURE_MAPPING )
        => /\ Cardinality(InsertedOf(n, e)) = 1
           /\ LET k == OutPos(r)
              IN  /\ k + 1 \in OutIdx
                  /\ IsInserted(k + 1)
                  /\ LStrip(output_lines[k + 1])
                       = <<Tex(TEXTURE_MAPPING[NameOf(lines[n])]), NL>>

\* Witness of C1: the same mapped name occurs twice, each time followed by a
\* rotation_period line, and the call has finished with two insertions.
C1_Witness ==
    /\ pc = "done"
    /\ bodies_updated = 2
    /\ \E n1 \in 1..i, n2 \in 1..i :
        /\ n1 < n2
        /\ FirstAnchor(n1, n1 + 1)
        /\ FirstAnchor(n2, n2 + 1)
        /\ NameOf(lines[n1]) = NameOf(lines[n2])
        /\ NameOf(lines[n1]) \in DOMAIN TEXTURE_MAPPING

\* C2 (as claimed): every inserted line starts with the very same leading
\* whitespace string as the anchor line before it, followed by the texture
\* field and a newline.
C2_SameWhitespaceAsAnchor ==
    Scanning =>
      \A k \in OutIdx :
        IsInserted(k) =>
          /\ k > 1
          /\ LET anchor == output_lines[k - 1]
                 new == output_lines[k]
             IN  /\ SubSeq(new, 1, Indent(new)) = SubSeq(anchor, 1, Indent(anchor))
                 /\ Len(LStrip(new)) = 2
                 /\ LStrip(new)[1].t = "tex"
                 /\ LStrip(new)[2] = NL

\* C3: a record whose name is not a key of the mapping gets no inserted line,
\* and its output is its input, also when it holds rotation_period lines.
C3_UnmappedRecordUntouched ==
    Scanning =>
      \A n \in 1..i, e \in 1..i :
        ( /\ RecordSpan(n, e)
          /\ NameOf(lines[n]) \notin DOMAIN TEXTURE_MAPPING )
        => /\ InsertedOf(n, e) = {}
           /\ OutPos(e) - OutPos(n) = e - n
           /\ SubSeq(output_lines, OutPos(n), OutPos(e)) = SubSeq(lines, n, e)

\* Witness of C3: a finished call on a file with an unmapped record that holds
\* a rotation_period line.
C3_Witness ==
    /\ pc = "done"
    /\ \E n \in 1..i, r \in 1..i :
        /\ FirstAnchor(n, r)
        /\ NameOf(lines[n]) \notin DOMAIN TEXTURE_MAPPING

\* C4: the output is the input with insertions only: the copied output lines
\* are the consumed input lines, unchanged, once each and in order.
C4_OnlyInsertions ==
    Scanning =>
      /\ Len(out_src) = Len(output_lines)
      /\ LET copied == {k \in OutIdx : ~IsInserted(k)}
         IN  /\ {out_src[k] : k \in copied} = 1..i
             /\ Cardinality(copied) = i
             /\ \A k \in copied : output_lines[k] = lines[out_src[k]]
             /\ \A k \in copied, m \in copied : k < m => out_src[k] < out_src[m]

\* Witness of C4: a finished call that inserted a line between copied lines.
C4_Witness ==
    /\ pc = "done"
    /\ \E k \in OutIdx : IsInserted(k) /\ k < Len(output_lines)
    /\ Len(lines) >= 3

\* C5 (as claimed): the finished call returns the count of records updated,
\* and the count is the number of texture lines inserted so far.
C5_ReturnsCount ==
    /\ Scanning =>
         /\ bodies_updated = Cardinality({k \in OutIdx : IsInserted(k)})
         /\ bodies_updated = Len(output_lines) - i
    /\ pc = "done" => result = {bodies_updated}

\* C5 (amended): the call returns nothing; it prints the count of records
\* updated, and at every point of the scan the count is the number of texture
\* lines inserted so far, the output length minus the lines consumed.
C5_CountsInsertions ==
    /\ Scanning =>
         /\ bodies_updated = Cardinality({k \in OutIdx : IsInserted(k)})
         /\ bodies_updated = Len(output_lines) - i
    /\ pc = "done" =>
         /\ reported = {bodies_updated}
         /\ result = NoneValue
         /\ bodies_updated = Len(output_lines) - Len(lines)

\* Witness of C5: a finished call that counted a mapped record and met an
\* unmapped record's anchor as well.
C5_Witness ==
    /\ pc = "done"
    /\ bodies_updated >= 1
    /\ \E n \in 1..i, r \in 1..i :
        /\ FirstAnchor(n, r)
        /\ NameOf(lines[n]) \notin DOMAIN TEXTURE_MAPPING

\* C6 (as claimed): a second call on the first call's output reports the same
\* count, and every anchor line that gets a texture line in the second call is
\* followed by two texture lines: the new one and the first call's.
C6_SecondCallDoubles ==
    (pc = "done" /\ calls = 2) =>
      /\ prev_count = {bodies_updated}
      /\ \A k \in OutIdx :
           IsInserted(k) =>
             /\ k + 1 \in OutIdx
             /\ ~IsInserted(k + 1)
             /\ output_lines[k + 1] = output_lines[k]

\* C8: a texture line is inserted only directly after a rotation_period line
\* that is the first one since the most recent name line.
C8_OnlyAfterFirstAnchor ==
    Scanning =>
      \A k \in OutIdx :
        IsInserted(k) =>
          /\ k > 1
          /\ ~IsInserted(k - 1)
          /\ \E n \in 1..i : FirstAnchor(n, out_src[k - 1])

\* Witness of C8: a finished call on a mapped record with two rotation_period
\* lines, which got one insertion.
C8_Witness ==
    /\ pc = "done"
    /\ bodies_updated = 1
    /\ \E n \in 1..i, r \in 1..i :
        /\ FirstAnchor(n, r)
        /\ NameOf(lines[n]) \in DOMAIN TEXTURE_MAPPING
        /\ r < i
        /\ IsRotationLine(lines[r + 1])

\* C10 (as claimed): the output line before an inserted texture line ends with
\* a line terminator, so the written file reads back as the output lines.
C10_InsertedOnOwnLine ==
    /\ Scanning =>
         \A k \in OutIdx :
           IsInserted(k) =>
             /\ k > 1
             /\ output_lines[k - 1][Len(output_lines[k - 1])] = NL
    /\ pc = "done" => ReadLines(file) = output_lines

\* C7: with a backup file, every run of the entry point leaves the working
\* file equal to the patch of the backup's text, the same after each run, and
\* no run changes the backup file.
C7_RerunsIdempotent ==
    /\ backup = backup0
    /\ (backup_exists /\ pc = "exit") =>
         /\ lines = ReadLines(backup0)
         /\ file = WriteLines(output_lines)
         /\ first_result = <<file>>

\* Witness of C7: the third run has ended, the backup holds a record that gets
\* a texture line, and the working file is not the backup's text.
C7_Witness ==
    /\ backup_exists
    /\ pc = "exit"
    /\ runs = 3
    /\ bodies_updated >= 1
    /\ file # backup

\* C9: within one process, two rasters generated for the same name, size and
\* base colour are equal, whatever was generated before or between them.
C9_SameSpecSameRaster ==
    \A a \in 1..Len(log), b \in 1..Len(log) :
        log[a].spec = log[b].spec => log[a].raster = log[b].raster

\* Witness of C9: a texture generated twice with another one in between.
C9_Witness ==
    /\ Len(log) >= 3
    /\ log[1].spec = log[3].spec
    /\ log[2].spec # log[1].spec
    /\ log[2].raster # log[1].raster

====
